---- MODULE Spec2Model ----
(***************************************************************************)
(* Model of the cardcraft match engine                                     *)
(* (src/components/cardcraft/game/system.py).  A Match is an immutable     *)
(* pyrsistent value; every method returns a new Match.  The model keeps    *)
(* the fields of the Match that is threaded through the calls, and each    *)
(* action is one method call on it, replacing the Match by the returned    *)
(* one (or leaving it alone when the call raises).                         *)
(***************************************************************************)
EXTENDS Integers, Sequences, FiniteSets, TLC

\* ------------------------------------------------------------------ bounds
MaxCursor == 1      \* stored cursor turn indexes range over 0..MaxCursor
MaxTurns  == 2      \* end_turn is explored while len(turns) < MaxTurns
MaxEvents == 2      \* do is explored while fewer than MaxEvents events are logged
MaxHand   == 1      \* draw is explored while the new hand has at most MaxHand entries
MaxClock  == 1      \* time.time() ranges over 0..MaxClock
MaxSleep  == 2      \* the sleeps of the bot's hand wait are counted modulo MaxSleep + 1

\* ------------------------------------------------------------ input sets
None == "None"

\* Optional[int]: None is the empty tuple, an int t is <<t>>
NoInt == << >>
SomeInt(t) == <<t>>

\* players.keys() in the iteration order of the PMap, for the stored
\* documents the model starts from
KeyOrders == { <<"p1", "p2">>, <<"p1", "p2", "p3">> }

\* callers: the participants and one id that is not a key of players
Actors == {"p1", "p2", "p3", "zz"}

\* the hp values of the stored documents: alive, or defeated with hp = 0 or
\* hp < 0
HpValues(k) == IF k = "p1" THEN {-1, 5} ELSE {0, 5}

\* the decks of the stored documents (deck["cards"]), tail last
DeckOf(k) ==
    CASE k = "p1" -> <<1, 2, 3, 4, 5>>
      [] k = "p2" -> <<6, 7>>
      [] OTHER    -> << >>

\* an entry of a hand: a card id, or whatever else the code appends
IdItem(c)    == [kind |-> "id", val |-> <<c>>]
VecItem(vec) == [kind |-> "pvector", val |-> vec]

\* the hands of the stored documents
HandOf(k) == IF k = "p2" THEN <<IdItem(8)>> ELSE << >>

\* the num argument of draw is a string
Nums == {"0", "1", "3"}

\* the (e, a, val) arguments do is called with
DoInputs == { <<"p1", "draw", "3">>, <<"p2", "draw", "3">>, <<"zz", "life", "-1">> }

VARIABLES
    keys,       \* iteration order of players (fixed by the PMap's layout)
    players,    \* Match.players : id -> [hp, deck, hand]
    fields,     \* Match.fields
    opener,     \* Match.opener
    finished,   \* Match.finished
    winner,     \* Match.winner
    futures,    \* Match.futures
    responses,  \* Match.responses
    cursor,     \* Match.cursor
    turns,      \* Match.turns
    now,        \* int(time.time())
    err,        \* exception raised by the last call, None if it returned
    ret,        \* value returned by the last Match.get call
    bot_pc,     \* where the running Nemesis.do call is
    slept,      \* number of time.sleep(1) calls of the hand wait (mod MaxSleep + 1)
    card,       \* a Card: [data, mapping]
    card_ret,   \* the last Card call and what it returned
    requests    \* the match_add_event requests in flight: [pc, event, match]

match == <<keys, players, fields, opener, finished, winner, futures, responses,
           cursor, turns>>
\* what the Match methods do not touch
aux   == <<ret, bot_pc, slept, card, card_ret, requests>>
vars  == <<keys, players, fields, opener, finished, winner, futures, responses,
           cursor, turns, now, err, ret, bot_pc, slept, card, card_ret, requests>>

Range(s) == { s[i] : i \in 1..Len(s) }

\* ------------------------------------------------------------- helpers
\* Event(e, a, v)
Event(e, a, val) == [e |-> e, a |-> a, v |-> val]

\* self.turns[-1]
OpenTurn == turns[Len(turns)]

\* int(num)
int(num) ==
    CASE num = "0" -> 0
      [] num = "1" -> 1
      [] num = "3" -> 3

\* PVector.delete(index): a new vector without the element at the (python,
\* possibly negative) index; the receiver is not changed
pvector_delete(vec, index) ==
    LET i == IF index < 0 THEN index + Len(vec) + 1 ELSE index + 1
    IN  SubSeq(vec, 1, i - 1) \o SubSeq(vec, i + 1, Len(vec))

TotalEvents(ts) ==
    LET RECURSIVE Sum(_)
        Sum(i) == IF i = 0 THEN 0 ELSE Len(ts[i]) + Sum(i - 1)
    IN  Sum(Len(ts))

\* nothing was returned (no call yet, or the call raised)
NoRet == "<nothing>"

\* a python bool as a returned value
PyBool(b) == IF b THEN "True" ELSE "False"

\* a field spot: None is the empty tuple, a card record d is <<d>>
NoCard == << >>
SomeCard(d) == <<d>>

\* a Card with no data and no mapping
EmptyCard == [data |-> [k \in {} |-> 0], mapping |-> [k \in {} |-> << >>]]

\* no Nemesis.do call is running
BotIdle == [pc |-> "idle", name |-> None]

\* Nemesis.do of the bot called name is in its hand wait loop
BotWaiting(name) == [pc |-> "waiting", name |-> name]

\* no Match.get, Nemesis.do or Card call has been made
\* the requests the server is handling, and a request not yet received
RequestIds == {"r1", "r2"}
NoDoc == << >>
SomeDoc(d) == <<d>>
NoRequests == [r \in RequestIds |-> [pc |-> "idle", event |-> << >>, match |-> NoDoc]]

AuxInit ==
    /\ requests = NoRequests
    /\ ret = NoRet
    /\ bot_pc = BotIdle
    /\ slept = 0
    /\ card = EmptyCard
    /\ card_ret = [call |-> "none", val |-> NoInt]

\* ---------------------------------------------------------------- Init
Init ==
    /\ keys \in KeyOrders
    /\ \E hp \in [Range(keys) -> {-1, 0, 5}] :
          /\ \A k \in Range(keys) : hp[k] \in HpValues(k)
          /\ players = [k \in Range(keys) |->
                        [hp |-> hp[k], deck |-> DeckOf(k), hand |-> HandOf(k)]]
    /\ fields = [i \in 1..2 |-> [j \in 1..2 |-> NoCard]]
    /\ opener \in Range(keys)
    /\ finished = NoInt
    /\ winner = None
    /\ futures = [k \in {} |-> << >>]
    /\ responses = [k \in {} |-> << >>]
    /\ cursor \in { <<t, 0>> : t \in 0..MaxCursor }
    /\ turns = << << >> >>
    /\ now = 0
    /\ err = None
    /\ AuxInit

\* ------------------------------------------------- capability predicates
\* is_turn with the parity of opener and second player exchanged
is_turn_swapped(ttype, t) ==
    IF ttype = "Player"
    THEN LET turn == cursor[1]
         IN  turn % 2 = (IF opener = t THEN 1 ELSE 0)
    ELSE FALSE

\* Match._is_turn
is_turn(ttype, t) ==
    IF ttype = "Player"
    THEN LET turn == cursor[1]
         IN  turn % 2 = (IF opener = t THEN 0 ELSE 1)
    ELSE FALSE

\* had_drawn, local to Match._can_draw
had_drawn(ev, t) == ev.e = t /\ ev.a = "draw"

\* can_draw looking for the draw Event in turns[0] instead of turns[-1]
can_draw_first_turn(ttype, t) ==
    IF ttype = "Player"
    THEN LET drawn == \E i \in 1..Len(turns[1]) : had_drawn(turns[1][i], t)
         IN  IF drawn THEN FALSE ELSE is_turn(ttype, t)
    ELSE FALSE

\* Match._can_draw
can_draw(ttype, t) ==
    IF ttype = "Player"
    THEN LET drawn == \E i \in 1..Len(OpenTurn) : had_drawn(OpenTurn[i], t)
         IN  IF drawn THEN FALSE ELSE is_turn(ttype, t)
    ELSE FALSE

\* Match._can_play
can_play(ttype, t) == is_turn(ttype, t)

\* Match._can_respond
can_respond(ttype, t) == t \in DOMAIN responses

\* the names hasattr(self, "_" + fn) finds on a Match: the four predicates,
\* and what the PClass base brings along (_to_dict, __init__)
MatchAttrs == {"_is_turn", "_can_draw", "_can_play", "_can_respond",
               "_to_dict", "__init__"}

\* the fn and ttype arguments Match.get is called with
Fns == {"is_turn", "can_draw", "can_play", "can_respond", "can_fly", "to_dict",
        "_init__"}
Targets == {"Player", "Field"}

\* getattr(self, method)(ttype, t): [err, ret] of the call
call_method(method, ttype, t) ==
    CASE method = "_is_turn"     -> [err |-> None, ret |-> PyBool(is_turn(ttype, t))]
      [] method = "_can_draw"    -> [err |-> None, ret |-> PyBool(can_draw(ttype, t))]
      [] method = "_can_play"    -> [err |-> None, ret |-> PyBool(can_play(ttype, t))]
      [] method = "_can_respond" -> [err |-> None, ret |-> PyBool(can_respond(ttype, t))]
      [] method = "__init__"     -> \* object.__init__ ignores the arguments
                                    [err |-> None, ret |-> None]
      [] OTHER                   -> \* _to_dict takes no arguments
                                    [err |-> "TypeError", ret |-> NoRet]

\* Match.get
get(fn, ttype, t) ==
    LET method == "_" \o fn
    IN  /\ IF method \notin MatchAttrs
           THEN \* raise Exception(f"Match cannot get {fn}")
                /\ err' = "Exception"
                /\ ret' = NoRet
           ELSE LET out == call_method(method, ttype, t)
                IN  /\ err' = out.err
                    /\ ret' = out.ret
        /\ UNCHANGED <<match, now, bot_pc, slept, card, card_ret, requests>>

\* ------------------------------------------------------------- actions
\* do storing the grown turn log at index 0 instead of -1
do_set_first(e, a, val) ==
    /\ Len(turns) > 0
    /\ TotalEvents(turns) < MaxEvents
    /\ LET registered == Append(OpenTurn, Event(e, a, val))
       IN  turns' = [turns EXCEPT ![1] = registered]
    /\ err' = None
    /\ UNCHANGED <<keys, players, fields, opener, finished, winner, futures,
                   responses, cursor, now>>
    /\ UNCHANGED aux

\* Match.do
do(e, a, val) ==
    /\ Len(turns) > 0
    /\ TotalEvents(turns) < MaxEvents
    /\ LET registered == Append(OpenTurn, Event(e, a, val))
       IN  turns' = [turns EXCEPT ![Len(turns)] = registered]
    /\ err' = None
    /\ UNCHANGED <<keys, players, fields, opener, finished, winner, futures,
                   responses, cursor, now>>
    /\ UNCHANGED aux

\* end_turn emptying the open turn log instead of appending a new one
end_turn_clears(player) ==
    /\ Len(turns) < MaxTurns
    /\ turns' = [turns EXCEPT ![Len(turns)] = << >>]
    /\ err' = None
    /\ UNCHANGED <<keys, players, fields, opener, finished, winner, futures,
                   responses, cursor, now>>
    /\ UNCHANGED aux

\* end_turn moving the cursor to the next turn without opening its log
end_turn_moves_cursor(player) ==
    /\ Len(turns) < MaxTurns
    /\ cursor' = <<cursor[1] + 1, 0>>
    /\ err' = None
    /\ UNCHANGED <<keys, players, fields, opener, finished, winner, futures,
                   responses, turns, now>>
    /\ UNCHANGED aux

\* Match.end_turn
end_turn(player) ==
    /\ Len(turns) < MaxTurns
    /\ turns' = Append(turns, << >>)
    /\ err' = None
    /\ UNCHANGED <<keys, players, fields, opener, finished, winner, futures,
                   responses, cursor, now>>
    /\ UNCHANGED aux

\* was_defeated, local to Match.end
was_defeated(pl) == pl.hp <= 0

\* the scan of Match.end without its break: the last player with hp > 0
last_alive ==
    LET RECURSIVE Scan(_)
        Scan(i) == IF i = 0 THEN None
                   ELSE IF players[keys[i]].hp > 0 THEN keys[i]
                   ELSE Scan(i - 1)
    IN  Scan(Len(keys))

\* the winner Match.end settles on: the first key, in iteration order, of a
\* player with hp > 0; None when the loop finds nobody
first_alive ==
    LET RECURSIVE Scan(_)
        Scan(i) == IF i > Len(keys) THEN None
                   ELSE IF players[keys[i]].hp > 0 THEN keys[i]
                   ELSE Scan(i + 1)
    IN  Scan(1)

\* Match.end without the check of winner is None: a defeated player wins
end_unchecked ==
    LET defeated == { k \in Range(keys) : was_defeated(players[k]) }
    IN  IF defeated = {}
        THEN /\ err' = None
             /\ UNCHANGED <<match, now, aux>>
        ELSE /\ winner' = (IF first_alive = None THEN keys[1] ELSE first_alive)
             /\ finished' = SomeInt(now)
             /\ err' = None
             /\ UNCHANGED <<keys, players, fields, opener, futures, responses,
                            cursor, turns, now>>
             /\ UNCHANGED aux

\* Match.end
end ==
    LET defeated == { k \in Range(keys) : was_defeated(players[k]) }
    IN  IF defeated = {}
        THEN \* return self
             /\ err' = None
             /\ UNCHANGED <<match, now, aux>>
        ELSE IF first_alive = None
        THEN \* raise AssertionError
             /\ err' = "AssertionError"
             /\ UNCHANGED <<match, now, aux>>
        ELSE /\ winner' = first_alive
             /\ finished' = SomeInt(now)
             /\ err' = None
             /\ UNCHANGED <<keys, players, fields, opener, futures, responses,
                            cursor, turns, now>>
             /\ UNCHANGED aux

\* the while loop of Match.draw: n is the remaining count, hand the local
\* variable; the deck and the hand of self are read again in every pass
draw_loop(player, n0) ==
    LET RECURSIVE Loop(_, _)
        Loop(n, hand) ==
            IF n > 0
            THEN IF 1 > Len(players[player].deck)
                 THEN hand
                 ELSE LET card_id == pvector_delete(players[player].deck, -1)
                      IN  Loop(n - 1, Append(players[player].hand, VecItem(card_id)))
            ELSE hand
    IN  Loop(n0, << >>)

\* Match.draw
draw(player, num) ==
    IF player \notin DOMAIN players
    THEN \* self.players[player] raises KeyError
         /\ err' = "KeyError"
         /\ UNCHANGED <<match, now, aux>>
    ELSE /\ LET hand    == draw_loop(player, int(num))
                changed == [players[player] EXCEPT !.hand = hand]
            IN  /\ Len(hand) <= MaxHand
                /\ players' = [players EXCEPT ![player] = changed]
         /\ err' = None
         /\ UNCHANGED <<keys, fields, opener, finished, winner, futures,
                        responses, cursor, turns, now>>
         /\ UNCHANGED aux

\* the clock read by Match.end moves on between calls
Tick ==
    /\ now < MaxClock
    /\ now' = now + 1
    /\ UNCHANGED <<match, err, aux>>

Next ==
    \/ \E in \in DoInputs : do(in[1], in[2], in[3])
    \/ \E p \in Actors : end_turn(p)
    \/ \E p \in Actors, num \in Nums : draw(p, num)
    \/ end
    \/ Tick

Spec == Init /\ [][Next]_vars

\* ------------------------------------------------------- the bot agent
\* f"f-{i}-{j}"
FieldPos(i, j) == "f-" \o ToString(i) \o "-" \o ToString(j)

\* the inner list of positions for the row at (1-based) index r: the
\* names of its spots that are None
row_positions(r) ==
    LET RECURSIVE Scan(_)
        Scan(c) == IF c > Len(fields[r]) THEN << >>
                   ELSE (IF fields[r][c] = NoCard
                         THEN << FieldPos(r - 1, c - 1) >> ELSE << >>)
                        \o Scan(c + 1)
    IN  Scan(1)

\* positions of Nemesis.do: one list per field with index i < 3
positions ==
    [r \in 1..(IF Len(fields) < 3 THEN Len(fields) ELSE 3) |-> row_positions(r)]

\* any(positions): some inner list is not empty
any_positions == \E r \in 1..Len(positions) : positions[r] # << >>

\* an entry of a hand inside an f-string
CardText(item) ==
    IF item.kind = "id" THEN ToString(item.val[1])
    ELSE "pvector(" \o ToString(item.val) \o ")"

\* f"bot plays card {card} to field position {pos}"
PlayText(item, pos) ==
    "bot plays card " \o CardText(item) \o " to field position " \o pos

\* done opening a new turn log for the event
done_new_turn(ts, e, a, val) == Append(ts, << Event(e, a, val) >>)

\* done replacing the open turn log by the event
done_overwrite(ts, e, a, val) == [ts EXCEPT ![Len(ts)] = << Event(e, a, val) >>]

\* turns of match.do(e, a, val), for the chained calls of the bot
done(ts, e, a, val) ==
    [ts EXCEPT ![Len(ts)] = Append(ts[Len(ts)], Event(e, a, val))]

\* Nemesis.do from the end of the hand wait on: the play option, the choice
\* and the chained do calls
nemesis_act(self) ==
    LET hand    == players[self].hand
        drawopt == IF can_draw("Player", self) THEN << <<self, "draw", "3">> >> ELSE << >>
    IN  IF any_positions
        THEN \E c \in 1..Len(hand), r \in 1..Len(positions) :
               IF positions[r] = << >>
               THEN \* random.choice of an empty list raises IndexError
                    /\ err' = "IndexError"
                    /\ UNCHANGED turns
               ELSE \E q \in 1..Len(positions[r]) :
                      LET options == Append(drawopt,
                                       <<self, PlayText(hand[c], positions[r][q]), None>>)
                      IN  \E o \in 1..Len(options) :
                            LET chose == options[o]
                            IN  /\ turns' = done(done(turns, chose[1], chose[2], chose[3]),
                                                 self, "end_turn", None)
                                /\ err' = None
        ELSE IF 0 < Len(drawopt)
        THEN /\ turns' = done(done(turns, drawopt[1][1], drawopt[1][2], drawopt[1][3]),
                              self, "end_turn", None)
             /\ err' = None
        ELSE \* skip turn
             /\ turns' = done(turns, self, "end_turn", None)
             /\ err' = None

\* Nemesis.do taking every turn for its own
nemesis_do_any_turn(self) ==
    /\ bot_pc = BotIdle
    /\ TotalEvents(turns) < MaxEvents
    /\ IF FALSE
       THEN \* not my turn: return match
            /\ err' = None
            /\ ret' = PyBool(FALSE)
            /\ UNCHANGED <<turns, bot_pc>>
       ELSE IF 1 > Len(players[self].hand)
       THEN \* waiting for hand draw
            /\ bot_pc' = BotWaiting(self)
            /\ ret' = PyBool(can_draw("Player", self))
            /\ UNCHANGED <<turns, err>>
       ELSE /\ nemesis_act(self)
            /\ ret' = PyBool(can_draw("Player", self))
            /\ UNCHANGED bot_pc
    /\ UNCHANGED <<keys, players, fields, opener, finished, winner, futures,
                   responses, cursor, now, slept, card, card_ret, requests>>

\* Nemesis.do up to the hand wait; ret is what its last match.get returned
nemesis_do(self) ==
    /\ bot_pc = BotIdle
    /\ TotalEvents(turns) < MaxEvents
    /\ IF ~is_turn("Player", self)
       THEN \* not my turn: return match
            /\ err' = None
            /\ ret' = PyBool(FALSE)
            /\ UNCHANGED <<turns, bot_pc>>
       ELSE IF 1 > Len(players[self].hand)
       THEN \* waiting for hand draw
            /\ bot_pc' = BotWaiting(self)
            /\ ret' = PyBool(can_draw("Player", self))
            /\ UNCHANGED <<turns, err>>
       ELSE /\ nemesis_act(self)
            /\ ret' = PyBool(can_draw("Player", self))
            /\ UNCHANGED bot_pc
    /\ UNCHANGED <<keys, players, fields, opener, finished, winner, futures,
                   responses, cursor, now, slept, card, card_ret, requests>>

\* one pass of the while loop of Nemesis.do: the hand of the same match is
\* read again
nemesis_wait ==
    /\ bot_pc.pc = "waiting"
    /\ IF 1 > Len(players[bot_pc.name].hand)
       THEN \* time.sleep(1)
            /\ slept' = (slept + 1) % (MaxSleep + 1)
            /\ UNCHANGED <<turns, err, bot_pc>>
       ELSE /\ nemesis_act(bot_pc.name)
            /\ bot_pc' = BotIdle
            /\ UNCHANGED slept
    /\ UNCHANGED <<keys, players, fields, opener, finished, winner, futures,
                   responses, cursor, now, ret, card, card_ret, requests>>

\* the raw record of a card lying on the field
FieldCard == ("A_value" :> 1) @@ ("E_value" :> 7) @@ ("_rage" :> 3)

\* the fields of the stored documents the bot is run on: four rows of one
\* spot, given by the set of rows that hold a card
FieldsWith(rows) ==
    [i \in 1..4 |-> [j \in 1..1 |-> IF i \in rows THEN SomeCard(FieldCard) ELSE NoCard]]

BotFields == { FieldsWith({}), FieldsWith({1}), FieldsWith({1, 2, 3}),
               FieldsWith({1, 2, 3, 4}) }

\* the players a Nemesis is created for
BotNames == {"p1", "p2"}

InitBot ==
    /\ keys = <<"p1", "p2">>
    /\ \E hp \in HpValues("p1") :
          players = [k \in Range(keys) |->
                       [hp |-> IF k = "p1" THEN hp ELSE 5,
                        deck |-> DeckOf(k), hand |-> HandOf(k)]]
    /\ fields \in BotFields
    /\ opener \in Range(keys)
    /\ finished = NoInt
    /\ winner = None
    /\ futures = [k \in {} |-> << >>]
    /\ responses = [k \in {} |-> << >>]
    /\ cursor \in { <<t, 0>> : t \in 0..MaxCursor }
    /\ turns = << << >> >>
    /\ now = 0
    /\ err = None
    /\ AuxInit

\* the calls are made one after the other: while Nemesis.do is in its wait
\* loop nothing else runs on the match
NextBot ==
    \/ bot_pc = BotIdle /\ \E in \in DoInputs : do(in[1], in[2], in[3])
    \/ bot_pc = BotIdle /\ \E p \in Actors : end_turn(p)
    \/ bot_pc = BotIdle /\ \E p \in Actors, num \in Nums : draw(p, num)
    \/ bot_pc = BotIdle /\ end
    \/ \E self \in BotNames : nemesis_do(self)
    \/ nemesis_wait

SpecBot == InitBot /\ [][NextBot]_vars

\* the worker running Nemesis.do keeps running
SpecBotFair == SpecBot /\ WF_vars(nemesis_wait)

\* ------------------------------------------------------ the card view
\* PMap.get(key, default) on raw card data, as an Optional[int]
data_get(data, key, default) ==
    IF key \in DOMAIN data THEN SomeInt(data[key]) ELSE default

\* Card.get looking at the private field before the mapping
Card_get_private_first(c, stat) ==
    LET priv == "_" \o stat
    IN  IF priv \in DOMAIN c.data THEN data_get(c.data, priv, NoInt)
        ELSE IF stat \in DOMAIN c.mapping
        THEN data_get(c.data, c.mapping[stat][1], NoInt)
        ELSE NoInt

\* Card.get; a mapping entry is (key, default), << >> stands for no entry
Card_get(c, stat) ==
    LET mapping0 == IF stat \in DOMAIN c.mapping THEN c.mapping[stat] ELSE << >>
        priv     == "_" \o stat
        mapping1 == IF mapping0 = << >> /\ priv \in DOMAIN c.data
                    THEN <<priv, None>> ELSE mapping0
    IN  IF mapping1 = << >> THEN NoInt
        ELSE LET key == mapping1[1]
             IN  data_get(c.data, key, NoInt)

\* a call of Card.get on card
card_get(stat) ==
    /\ card_ret' = [call |-> "get", val |-> Card_get(card, stat)]
    /\ err' = None
    /\ UNCHANGED <<match, now, ret, bot_pc, slept, card, requests>>

\* a call of Card.rotate on card: the PMap built by data.set is dropped and
\* self is returned; val is the _rotation entry of the returned card
card_rotate(degrees) ==
    /\ IF "_rotation_locked" \in DOMAIN card.data /\ card.data["_rotation_locked"] # 0
       THEN \* raise AssertionError
            /\ err' = "AssertionError"
            /\ card_ret' = [call |-> "rotate", val |-> NoInt]
            /\ UNCHANGED card
       ELSE LET old     == IF "_rotation" \in DOMAIN card.data
                           THEN card.data["_rotation"] ELSE 0
                dropped == [k \in DOMAIN card.data \cup {"_rotation"} |->
                              IF k = "_rotation" THEN old + degrees ELSE card.data[k]]
                self    == card
            IN  /\ card' = self
                /\ card_ret' = [call |-> "rotate",
                                val |-> data_get(self.data, "_rotation", NoInt)]
                /\ err' = None
    /\ UNCHANGED <<match, now, ret, bot_pc, slept, requests>>

\* raw card records: each key absent or present with a value
CardKeys == {"E_value", "_atk", "_rage", "_rotation", "_rotation_locked"}

CardValues(k) ==
    CASE k = "E_value"          -> {7}
      [] k = "_atk"             -> {2}
      [] k = "_rage"            -> {3}
      [] k = "_rotation"        -> {90}
      [] k = "_rotation_locked" -> {0, 1}

CardDatas ==
    UNION { { d \in [ks -> UNION { CardValues(k) : k \in CardKeys }] :
                \A k \in ks : d[k] \in CardValues(k) } :
            ks \in SUBSET CardKeys }

\* stat -> (field key, default)
CardMappings == { [k \in {} |-> << >>], [k \in {"atk"} |-> <<"E_value", None>>] }

Stats == {"atk", "rage", "cost"}

Degrees == {90, 180}

InitCard ==
    /\ keys = <<"p1", "p2">>
    /\ players = [k \in Range(keys) |->
                    [hp |-> 5, deck |-> DeckOf(k), hand |-> HandOf(k)]]
    /\ fields = [i \in 1..2 |-> [j \in 1..2 |-> NoCard]]
    /\ opener = "p1"
    /\ finished = NoInt
    /\ winner = None
    /\ futures = [k \in {} |-> << >>]
    /\ responses = [k \in {} |-> << >>]
    /\ cursor = <<0, 0>>
    /\ turns = << << >> >>
    /\ now = 0
    /\ err = None
    /\ ret = NoRet
    /\ bot_pc = BotIdle
    /\ slept = 0
    /\ \E d \in CardDatas, mp \in CardMappings : card = [data |-> d, mapping |-> mp]
    /\ card_ret = [call |-> "none", val |-> NoInt]
    /\ requests = NoRequests

NextCard ==
    \/ \E stat \in Stats : card_get(stat)
    \/ \E degrees \in Degrees : card_rotate(degrees)

SpecCard == InitCard /\ [][NextCard]_vars

\* -------------------------------------------------- the card effects
\* DefaultCardMapping, each entry as (key, None)
DefaultCardMapping ==
    ("name" :> <<"A_value", None>>) @@ ("type" :> <<"B_value", None>>) @@
    ("class" :> <<"C_value", None>>) @@ ("atk" :> <<"E_value", None>>) @@
    ("def" :> <<"F_value", None>>)

\* the field spots a target string can name
SpotIndexes == (0..3) \X (0..3)

\* target.startswith("f-"), for the targets "f-<row>-<col>"
starts_with_f(target) == \E rc \in SpotIndexes : FieldPos(rc[1], rc[2]) = target

\* _, row, col = target.split("-"), as (int(row), int(col))
split_target(target) == CHOOSE rc \in SpotIndexes : FieldPos(rc[1], rc[2]) = target

\* f"player applies continuous effect {card_id} on {target}, preventing rotation"
EffectText(card_id, target) ==
    "player applies continuous effect " \o card_id \o " on " \o target
        \o ", preventing rotation"

\* the arguments v1_prevent_rotation_continuous is called with
CardIds == {"c9"}
EffectTargets == {"f-0-0", "f-1-0", "p2"}
TargetAttributes == {None, "atk", "rage", "cost"}
TargetValues == { NoInt, SomeInt(7), SomeInt(3) }

\* v1_prevent_rotation_continuous without the comparison of the values
v1_prevent_rotation_continuous_unchecked(card_id, played_by, target, target_attribute, target_value) ==
    /\ TotalEvents(turns) < MaxEvents
    /\ turns' = done(turns, played_by, EffectText(card_id, target), None)
    /\ err' = None
    /\ UNCHANGED <<keys, players, fields, opener, finished, winner, futures,
                   responses, cursor, now>>
    /\ UNCHANGED aux

\* Match.v1_prevent_rotation_continuous
v1_prevent_rotation_continuous(card_id, played_by, target, target_attribute, target_value) ==
    LET checked == target_attribute # None /\ starts_with_f(target)
        rc      == split_target(target)
        spot    == fields[rc[1] + 1][rc[2] + 1]
        view    == [data |-> spot[1], mapping |-> DefaultCardMapping]
    IN  /\ TotalEvents(turns) < MaxEvents
        /\ IF checked /\ spot = NoCard
           THEN \* Card(data=None) is refused by the field type
                /\ err' = "TypeError"
                /\ UNCHANGED turns
           ELSE IF checked /\ target_value # Card_get(view, target_attribute)
           THEN \* raise Exception("Cannot apply ...")
                /\ err' = "Exception"
                /\ UNCHANGED turns
           ELSE /\ turns' = done(turns, played_by, EffectText(card_id, target), None)
                /\ err' = None
        /\ UNCHANGED <<keys, players, fields, opener, finished, winner, futures,
                       responses, cursor, now>>
        /\ UNCHANGED aux

InitEffect ==
    /\ keys = <<"p1", "p2">>
    /\ players = [k \in Range(keys) |->
                    [hp |-> 5, deck |-> DeckOf(k), hand |-> HandOf(k)]]
    /\ fields = FieldsWith({1})
    /\ opener \in Range(keys)
    /\ finished = NoInt
    /\ winner = None
    /\ futures = [k \in {} |-> << >>]
    /\ responses = [k \in {} |-> << >>]
    /\ cursor = <<0, 0>>
    /\ turns = << << >> >>
    /\ now = 0
    /\ err = None
    /\ AuxInit

NextEffect ==
    \/ \E card_id \in CardIds, played_by \in {"p1", "p2"}, target \in EffectTargets,
          target_attribute \in TargetAttributes, target_value \in TargetValues :
          v1_prevent_rotation_continuous(card_id, played_by, target,
                                         target_attribute, target_value)
    \/ \E p \in Actors : end_turn(p)

SpecEffect == InitEffect /\ [][NextEffect]_vars

\* ------------------------------------------ the capability dispatcher
\* stored two-player documents with and without a responses entry
InitGet ==
    /\ keys = <<"p1", "p2">>
    /\ players = [k \in Range(keys) |->
                    [hp |-> 5, deck |-> DeckOf(k), hand |-> HandOf(k)]]
    /\ fields = [i \in 1..2 |-> [j \in 1..2 |-> NoCard]]
    /\ opener \in Range(keys)
    /\ finished = NoInt
    /\ winner = None
    /\ futures = [k \in {} |-> << >>]
    /\ responses \in { [k \in {} |-> << >>], [k \in {"p1"} |-> << >>] }
    /\ cursor \in { <<t, 0>> : t \in 0..MaxCursor }
    /\ turns = << << >> >>
    /\ now = 0
    /\ err = None
    /\ AuxInit

NextGet ==
    \/ \E in \in DoInputs : do(in[1], in[2], in[3])
    \/ \E p \in Actors : end_turn(p)
    \/ \E fn \in Fns, ttype \in Targets, t \in Actors : get(fn, ttype, t)

SpecGet == InitGet /\ [][NextGet]_vars

\* ------------------------------------------- the match_add_event handler
\* the Match variables are the stored document; a request holds the document
\* it loaded in requests[r].match

\* mem["session"][sess_id]["key"] of the session each request carries
IdentityOf(r) == IF r = "r1" THEN "p1" ELSE "p2"

\* body.get("event", [None, None, None])
Bodies == { <<"$me", "draw", "3">>, <<"p1", "play", "c1">>, <<"zz", "life", "-1">>,
            <<None, None, None>> }

\* the document gamedb.matches.find_one returns
StoredDoc ==
    [players |-> players, fields |-> fields, opener |-> opener,
     finished |-> finished, winner |-> winner, futures |-> futures,
     responses |-> responses, cursor |-> cursor, turns |-> turns]

\* match_add_event up to the end of its find_one: the body and session
\* checks, the lookup and the load
match_add_event_load(r) ==
    /\ requests[r].pc = "idle"
    /\ \E body \in Bodies :
          LET identity == IdentityOf(r)
              e        == IF body[1] = "$me" THEN identity ELSE body[1]
              a        == body[2]
              val      == body[3]
              failed   == [requests EXCEPT ![r].pc = "failed"]
          IN  IF body[1] = None /\ a = None
              THEN \* raise Exception("Event entity and attribute cannot be nil valued!")
                   /\ err' = "Exception"
                   /\ requests' = failed
              ELSE IF e # identity
              THEN \* raise AssertionError
                   /\ err' = "AssertionError"
                   /\ requests' = failed
              ELSE IF ~(identity \in DOMAIN players /\ finished = NoInt)
              THEN \* find_one found nothing: raise AssertionError
                   /\ err' = "AssertionError"
                   /\ requests' = failed
              ELSE /\ err' = None
                   /\ requests' = [requests EXCEPT
                                     ![r] = [pc |-> "loaded", event |-> <<e, a, val>>,
                                             match |-> SomeDoc(StoredDoc)]]
    /\ UNCHANGED <<match, now, ret, bot_pc, slept, card, card_ret>>

\* the store applying do to the document as it is stored at that moment
match_add_event_store_fresh(r) ==
    /\ requests[r].pc = "loaded"
    /\ LET ev == requests[r].event
       IN  turns' = done(turns, ev[1], ev[2], ev[3])
    /\ requests' = [requests EXCEPT ![r].pc = "done"]
    /\ err' = None
    /\ UNCHANGED <<keys, players, fields, opener, finished, winner, futures,
                   responses, cursor>>
    /\ UNCHANGED <<now, ret, bot_pc, slept, card, card_ret>>

\* match_add_event from the end of its find_one on:
\* replace_one(lookup, Match.create(match).do(e, a, v).asdict())
match_add_event_store(r) ==
    /\ requests[r].pc = "loaded"
    /\ LET doc == requests[r].match[1]
           ev  == requests[r].event
       IN  /\ players' = doc.players
           /\ fields' = doc.fields
           /\ opener' = doc.opener
           /\ finished' = doc.finished
           /\ winner' = doc.winner
           /\ futures' = doc.futures
           /\ responses' = doc.responses
           /\ cursor' = doc.cursor
           /\ turns' = done(doc.turns, ev[1], ev[2], ev[3])
    /\ requests' = [requests EXCEPT ![r].pc = "done"]
    /\ err' = None
    /\ UNCHANGED <<keys, now, ret, bot_pc, slept, card, card_ret>>

\* the stored matches the requests arrive for
InitRequests ==
    /\ keys = <<"p1", "p2">>
    /\ players = [k \in Range(keys) |->
                    [hp |-> 5, deck |-> DeckOf(k), hand |-> HandOf(k)]]
    /\ fields = [i \in 1..2 |-> [j \in 1..2 |-> NoCard]]
    /\ opener \in Range(keys)
    /\ finished \in { NoInt, SomeInt(0) }
    /\ winner = None
    /\ futures = [k \in {} |-> << >>]
    /\ responses = [k \in {} |-> << >>]
    /\ cursor = <<0, 0>>
    /\ turns \in { << << >> >>,
                   << << Event("p1", "draw", "3"), Event("p2", "draw", "3") >> >> }
    /\ now = 0
    /\ err = None
    /\ AuxInit

\* the handler is a coroutine: requests interleave at its awaits
NextRequests ==
    \/ \E r \in RequestIds : match_add_event_load(r)
    \/ \E r \in RequestIds : match_add_event_store(r)

SpecRequests == InitRequests /\ [][NextRequests]_vars

\* ================================================================ claims
Player == "Player"

Defeated == { k \in Range(keys) : players[k].hp <= 0 }
Alive    == { k \in Range(keys) : players[k].hp > 0 }

DrewInOpenTurn(p) == \E i \in 1..Len(OpenTurn) : OpenTurn[i].e = p /\ OpenTurn[i].a = "draw"

Min(a, b) == IF a < b THEN a ELSE b

\* C1: in a two-player match with opener p1, turns = [[]] and cursor = (0,0),
\* one end_turn makes is_turn(Player, p1) false and is_turn(Player, p2) true.
C1_EndTurnPassesTurn ==
    [][ \A a \in Actors :
          ( /\ keys = <<"p1", "p2">> /\ opener = "p1"
            /\ turns = << << >> >> /\ cursor = <<0, 0>>
            /\ is_turn(Player, "p1")
            /\ end_turn(a) )
          => ( ~is_turn(Player, "p1")' /\ is_turn(Player, "p2")' ) ]_vars

\* C2: for every state and every id, is_turn(Player, id) is
\* ((cursor turn index mod 2 = 0) = (opener = id)).
C2_IsTurnParity ==
    \A id \in Actors :
        is_turn(Player, id) = ((cursor[1] % 2 = 0) = (opener = id))

C2_Witness ==
    /\ cursor[1] % 2 = 1
    /\ ~is_turn(Player, opener)
    /\ \E id \in Range(keys) : id # opener /\ is_turn(Player, id)

C4_DrawMovesCards ==
    [][ \A p \in Range(keys), num \in Nums :
          draw(p, num) =>
            LET deck  == players[p].deck
                k     == Min(int(num), Len(deck))
                moved == [i \in 1..k |-> IdItem(deck[Len(deck) + 1 - i])]
            IN  /\ players'[p].deck = SubSeq(deck, 1, Len(deck) - k)
                /\ players'[p].hand = players[p].hand \o moved ]_vars

\* C5: for every player, deck size plus hand size stays the initial total and
\* every card id the player owns is in exactly one of deck and hand.
OwnedCards(k) ==
    Range(DeckOf(k)) \cup { HandOf(k)[i].val[1] : i \in 1..Len(HandOf(k)) }

C5_CardsConserved ==
    \A k \in Range(keys) :
        /\ Len(players[k].deck) + Len(players[k].hand)
              = Len(DeckOf(k)) + Len(HandOf(k))
        /\ \A c \in OwnedCards(k) :
              (c \in Range(players[k].deck)) # (IdItem(c) \in Range(players[k].hand))

\* C6: end is idempotent: end on the result of end gives the same winner and
\* the same finished, also when the clock has advanced in between.
C6_EndIdempotent ==
    [][ (finished # NoInt /\ end) => (winner' = winner /\ finished' = finished) ]_vars

\* C7: winner is set iff finished is set, and once set neither is changed or
\* cleared by any later operation.
C7_WinnerFinishedSetOnce ==
    /\ []((winner = None) <=> (finished = NoInt))
    /\ [][ /\ winner # None => winner' = winner
           /\ finished # NoInt => finished' = finished ]_vars

\* C8: end returns the state unchanged when nobody has hp <= 0; with at
\* least one player defeated and one alive it sets winner to the first player
\* in iteration order with hp > 0 and sets finished.
C8_EndPicksFirstAlive ==
    [][ end =>
          /\ Defeated = {} => (UNCHANGED match /\ err' = None)
          /\ (Defeated # {} /\ Alive # {}) =>
                /\ \E i \in 1..Len(keys) :
                      /\ winner' = keys[i]
                      /\ players[keys[i]].hp > 0
                      /\ \A j \in 1..(i - 1) : players[keys[j]].hp <= 0
                /\ winner' \notin Defeated
                /\ finished' = SomeInt(now)
                /\ finished' # NoInt ]_vars

C8_Witness ==
    /\ Cardinality(Alive) >= 2
    /\ Defeated # {}
    /\ winner = keys[2]
    /\ finished # NoInt

\* C9: when every player has hp <= 0, end fails with an error and gives no
\* new state: winner and finished stay unset and the match is unchanged.
C9_EndAllDefeatedFails ==
    [][ (Alive = {} /\ end) =>
          /\ err' = "AssertionError"
          /\ UNCHANGED match
          /\ winner' = None /\ finished' = NoInt ]_vars

C9_Witness ==
    /\ Alive = {}
    /\ err = "AssertionError"
    /\ winner = None /\ finished = NoInt

\* C10: do always succeeds on a non-empty turns, for any actor and on a
\* finished match too: it appends exactly one Event at the end of the last
\* turn log and leaves everything else unchanged.
C10_DoAppendsOneEvent ==
    [][ \A in \in DoInputs :
          do(in[1], in[2], in[3]) =>
            /\ err' = None
            /\ Len(turns') = Len(turns)
            /\ \A i \in 1..(Len(turns) - 1) : turns'[i] = turns[i]
            /\ turns'[Len(turns)] = turns[Len(turns)] \o << Event(in[1], in[2], in[3]) >>
            /\ UNCHANGED <<players, fields, cursor, winner, finished, responses,
                           futures, opener>> ]_vars

C10_Witness ==
    /\ finished # NoInt
    /\ Len(turns) = 2
    /\ Len(turns[1]) = 1
    /\ Len(OpenTurn) = 1
    /\ OpenTurn[1] = Event("zz", "life", "-1")

\* C11: end_turn(actor) appends exactly one new empty turn log, which becomes
\* the open turn, for any actor; the existing turn logs and every other field
\* of the match are unchanged.
C11_EndTurnAppendsEmptyLog ==
    [][ \A a \in Actors :
          end_turn(a) =>
            /\ err' = None
            /\ Len(turns') = Len(turns) + 1
            /\ \A i \in 1..Len(turns) : turns'[i] = turns[i]
            /\ turns'[Len(turns')] = << >>
            /\ UNCHANGED <<keys, players, fields, opener, finished, winner,
                           futures, responses, cursor>> ]_vars

C11_Witness ==
    /\ Len(turns) = 2
    /\ Len(turns[1]) = 2
    /\ OpenTurn = << >>

\* C12: get with a name other than is_turn, can_draw, can_play, can_respond
\* fails with an error and returns no value; with one of the four it returns
\* the result of that predicate.
Registered == {"is_turn", "can_draw", "can_play", "can_respond"}

PredicateOf(fn, ttype, t) ==
    CASE fn = "is_turn"     -> is_turn(ttype, t)
      [] fn = "can_draw"    -> can_draw(ttype, t)
      [] fn = "can_play"    -> is_turn(ttype, t)
      [] fn = "can_respond" -> t \in DOMAIN responses

C12_GetUnknownCapabilityFails ==
    [][ \A fn \in Fns, ttype \in Targets, t \in Actors :
          get(fn, ttype, t) =>
            IF fn \in Registered
            THEN err' = None /\ ret' = PyBool(PredicateOf(fn, ttype, t))
            ELSE err' # None /\ ret' = NoRet ]_vars

\* the bot's call returned a match with new events
BotActed(self) ==
    /\ \/ nemesis_do(self)
       \/ bot_pc = BotWaiting(self) /\ nemesis_wait
    /\ turns' # turns

TheOther(k) == CHOOSE q \in Range(keys) : q # k

\* C13: invoked when is_turn(Player, self) is false, the bot returns without
\* waiting, records no event, and the returned state equals the input state.
C13_BotAbstainsOffTurn ==
    [][ \A self \in BotNames :
          ( ~is_turn(Player, self) /\ nemesis_do(self) ) =>
            /\ UNCHANGED match
            /\ bot_pc' = BotIdle
            /\ slept' = slept
            /\ err' = None ]_vars

C13_Witness ==
    /\ ret = "False"
    /\ TotalEvents(turns) = 0
    /\ bot_pc = BotIdle
    /\ slept = 0

\* C14: every invocation of the bot eventually returns: the wait for a
\* populated hand is bounded.
C14_BotEventuallyReturns ==
    [](bot_pc.pc = "waiting" => <>(bot_pc = BotIdle))

\* C15: when the bot acts on its own turn it adds one option Event followed
\* by (self, end_turn, null) if the option set is non-empty, only
\* (self, end_turn, null) if it is empty; players, fields, cursor unchanged.
EmptySpots ==
    UNION { { FieldPos(i - 1, j - 1) :
                j \in { c \in 1..Len(fields[i]) : fields[i][c] = NoCard } } :
            i \in { r \in 1..Len(fields) : r <= 3 } }

OptionSet(self) ==
    (IF can_draw(Player, self) THEN { <<self, "draw", "3">> } ELSE {})
    \cup { <<self, PlayText(h, pos), None>> :
             h \in Range(players[self].hand), pos \in EmptySpots }

C15_BotEventsThenEndTurn ==
    [][ \A self \in BotNames :
          ( is_turn(Player, self) /\ BotActed(self) ) =>
            LET n     == Len(turns)
                added == SubSeq(turns'[n], Len(turns[n]) + 1, Len(turns'[n]))
            IN  /\ Len(turns') = n
                /\ \A i \in 1..(n - 1) : turns'[i] = turns[i]
                /\ SubSeq(turns'[n], 1, Len(turns[n])) = turns[n]
                /\ IF OptionSet(self) # {}
                   THEN \E o \in OptionSet(self) :
                          added = << Event(o[1], o[2], o[3]),
                                     Event(self, "end_turn", None) >>
                   ELSE added = << Event(self, "end_turn", None) >>
                /\ turns'[n][Len(turns'[n])] = Event(self, "end_turn", None)
                /\ UNCHANGED <<players, fields, cursor>> ]_vars

C15_Witness ==
    /\ Len(OpenTurn) = 2
    /\ OpenTurn[1] = Event("p2", PlayText(IdItem(8), "f-1-0"), None)
    /\ OpenTurn[2] = Event("p2", "end_turn", None)

\* C16: after the bot has acted on its own turn the turn is closed:
\* is_turn(Player, self) is false and true for its opponent, so the bot
\* invoked again abstains.
C16_BotTurnClosed ==
    [][ \A self \in BotNames :
          ( is_turn(Player, self) /\ BotActed(self) ) =>
            ( ~is_turn(Player, self)' /\ is_turn(Player, TheOther(self))' ) ]_vars

C18_RotateAddsDegrees ==
    [][ \A degrees \in Degrees :
          card_rotate(degrees) =>
            LET d      == card.data
                locked == "_rotation_locked" \in DOMAIN d /\ d["_rotation_locked"] # 0
                old    == IF "_rotation" \in DOMAIN d THEN d["_rotation"] ELSE 0
            IN  IF locked
                THEN err' = "AssertionError" /\ card' = card
                ELSE /\ err' = None
                     /\ "_rotation" \in DOMAIN card'.data
                     /\ card'.data["_rotation"] = old + degrees
                     /\ card_ret'.val = <<old + degrees>> ]_vars

\* C19: v1_prevent_rotation_continuous with a field-slot target and a
\* target_attribute fails with an error and records no event when the value
\* resolved from the slot's card differs from target_value; when they are
\* equal, or no target_attribute is given, it appends exactly one
\* rotation-prevention Event authored by played_by to the open turn.
Resolved(d, attr) ==
    IF attr \in {"name", "type", "class", "atk", "def"}
    THEN LET key == CASE attr = "name" -> "A_value" [] attr = "type" -> "B_value"
                      [] attr = "class" -> "C_value" [] attr = "atk" -> "E_value"
                      [] attr = "def" -> "F_value"
         IN  IF key \in DOMAIN d THEN <<d[key]>> ELSE << >>
    ELSE IF ("_" \o attr) \in DOMAIN d THEN <<d["_" \o attr]>> ELSE << >>

C19_PreventRotationChecksValue ==
    [][ \A card_id \in CardIds, played_by \in {"p1", "p2"}, target \in {"f-0-0", "p2"},
           target_attribute \in TargetAttributes, target_value \in TargetValues :
          v1_prevent_rotation_continuous(card_id, played_by, target,
                                         target_attribute, target_value) =>
            LET n == Len(turns)
            IN  IF /\ target = "f-0-0"
                   /\ target_attribute # None
                   /\ Resolved(fields[1][1][1], target_attribute) # target_value
                THEN err' # None /\ UNCHANGED match
                ELSE /\ target = "f-0-0" \/ target_attribute = None
                        => /\ err' = None
                           /\ Len(turns') = n
                           /\ \A i \in 1..(n - 1) : turns'[i] = turns[i]
                           /\ Len(turns'[n]) = Len(turns[n]) + 1
                           /\ SubSeq(turns'[n], 1, Len(turns[n])) = turns[n]
                           /\ turns'[n][Len(turns'[n])] =
                                 Event(played_by, EffectText(card_id, target), None)
                           /\ UNCHANGED <<players, fields, cursor, winner, finished>> ]_vars

C19_Witness ==
    /\ err = "Exception"
    /\ Len(OpenTurn) = 1
    /\ OpenTurn[1] = Event("p1", EffectText("c9", "f-0-0"), None)

\* C20: the event log is append-only over do, end_turn, draw, end and the
\* bot's actions: every earlier turn log stays as it was, the events of the
\* open turn log stay in place and in order, and new events only come after
\* them or in turn logs opened later.
IsPrefix(s, t) == Len(s) <= Len(t) /\ SubSeq(t, 1, Len(s)) = s

C20_EventLogAppendOnly ==
    [][ /\ Len(turns') >= Len(turns)
        /\ \A i \in 1..(Len(turns) - 1) : turns'[i] = turns[i]
        /\ IsPrefix(turns[Len(turns)], turns'[Len(turns)]) ]_vars

C20_Witness ==
    /\ Len(turns) = 2
    /\ \E i \in 1..Len(turns[1]) :
          turns[1][i].a = "end_turn" /\ turns[1][i].e \in BotNames
    /\ Len(turns[1]) >= 2

\* C21: from a state where turns is non-empty and the cursor's turn index is
\* below Len(turns), every step of do, end_turn, draw, end and the bot leads
\* to a state where turns is non-empty and the cursor's turn index is below
\* Len(turns).
CursorInTurns(c, ts) == Len(ts) >= 1 /\ c[1] < Len(ts)

C21_TurnsNonEmptyCursorInRange ==
    [][ CursorInTurns(cursor, turns) => CursorInTurns(cursor', turns') ]_vars

C21_Witness ==
    /\ CursorInTurns(cursor, turns)
    /\ cursor[1] = 0
    /\ Len(turns) = 2
    /\ \E i \in 1..Len(turns[1]) :
          turns[1][i].a = "end_turn" /\ turns[1][i].e \in BotNames

\* C22: on the bot's turn with a non-empty hand the option set holds the
\* play option exactly when some slot of the field grid, in any row, is
\* empty; a recorded play event names a card of the bot's hand and a
\* position that is empty in the input state; the draw option is in the set
\* exactly when can_draw(Player, self) holds.
GridEmptySpots ==
    UNION { { FieldPos(i - 1, j - 1) :
                j \in { c \in 1..Len(fields[i]) : fields[i][c] = NoCard } } :
            i \in 1..Len(fields) }

GridPlays(self) ==
    { PlayText(h, pos) : h \in Range(players[self].hand), pos \in GridEmptySpots }

C22_BotOptionSet ==
    [][ \A self \in BotNames :
          ( /\ is_turn(Player, self)
            /\ Len(players[self].hand) >= 1
            /\ nemesis_do(self) ) =>
            LET n       == Len(turns)
                added   == SubSeq(turns'[n], Len(turns[n]) + 1, Len(turns'[n]))
                options == (IF can_draw(Player, self) THEN {"draw"} ELSE {})
                           \cup GridPlays(self)
            IN  /\ err' = None
                /\ Len(turns') = n
                /\ IF options = {}
                   THEN added = << Event(self, "end_turn", None) >>
                   ELSE /\ Len(added) = 2
                        /\ added[1].e = self
                        /\ added[1].a \in options
                        /\ added[1].a = "draw" => added[1].v = "3"
                        /\ added[1].a \in GridPlays(self) => added[1].v = None
                        /\ added[2] = Event(self, "end_turn", None) ]_vars

\* C23: nothing guards against concurrent writers. Once both requests have
\* loaded the match, applied do with their own event and stored the result:
\* if they ran one after the other (the second loaded what the first
\* stored) the stored open turn holds both events, in that order; if their
\* loads and stores interleaved (both loaded the same document) the stored
\* open turn holds only one of the two events, the other is lost.
LoadedTurns(r) == requests[r].match[1].turns

With(ts, ev) ==
    [ts EXCEPT ![Len(ts)] = Append(ts[Len(ts)], Event(ev[1], ev[2], ev[3]))]

RanAfter(a, b) == LoadedTurns(b) = With(LoadedTurns(a), requests[a].event)

C23_SequentialWitness ==
    /\ \A r \in RequestIds : requests[r].pc = "done"
    /\ RanAfter("r1", "r2")
    /\ Len(OpenTurn) = Len(LoadedTurns("r1")[1]) + 2
====
